---- MODULE Spec2Model ----
(***************************************************************************)
(* Model of kati's command evaluation engine (src/command.cc): the         *)
(* automatic variables, ParseCommandPrefixes and CommandEvaluator::Eval.   *)
(*                                                                         *)
(* Strings are sequences of one-character strings.  Positions in the       *)
(* operators that mirror StringPiece are 0-based, as in the C++ code.      *)
(* The derived forms $(@D), $(@F), ... and the source location kept by the *)
(* evaluator are not modelled.                                             *)
(***************************************************************************)
EXTENDS Naturals, Integers, Sequences, FiniteSets, TLC

\* ------------------------------------------------------------------------
\* Bounds of the model
\* ------------------------------------------------------------------------
MaxInputs == 3      \* longest prerequisite list of a node
MaxOverrideInputs == 1  \* longest prerequisite list of an override node
MaxTemplates == 2   \* most command templates of one node
MaxDelayed == 2     \* most delayed-output strings queued in one behaviour
MaxLen == 4         \* longest input string given to ParseCommandPrefixes

\* ------------------------------------------------------------------------
\* Characters and StringPiece helpers
\* ------------------------------------------------------------------------
LF == "\n"
BS == "\\"
SP == " "
NUL == "NUL"        \* what StringPiece::get returns past the end
NPOS == -1          \* string::npos; NPOS + 1 = 0 as in size_t arithmetic

Min(a, b) == IF a < b THEN a ELSE b

\* StringPiece::get(i)
Get(s, i) == IF i < Len(s) THEN s[i + 1] ELSE NUL

\* StringPiece::substr(pos, n), n = NPOS meaning "to the end"
Substr(s, pos, n) ==
  LET p == Min(pos, Len(s))
      m == IF n = NPOS \/ n > Len(s) - p THEN Len(s) - p ELSE n
  IN SubSeq(s, p + 1, p + m)

isSpace(c) == c \in {SP, LF}

RECURSIVE TrimLeftSpace(_)
TrimLeftSpace(s) ==
  IF Len(s) > 0 /\ isSpace(s[1]) THEN TrimLeftSpace(Tail(s)) ELSE s

\* First unescaped line terminator at or after e, or Len(s) when none.
RECURSIVE FindEndOfLine(_, _)
FindEndOfLine(s, e) ==
  IF e >= Len(s) THEN Len(s)
  ELSE IF Get(s, e) = BS
       THEN IF Get(s, e + 1) \in {LF, BS}
            THEN FindEndOfLine(s, e + 2)
            ELSE FindEndOfLine(s, e + 1)
       ELSE IF Get(s, e) = LF THEN e
       ELSE FindEndOfLine(s, e + 1)

\* WordWriter: words joined by single spaces
RECURSIVE JoinWords(_)
JoinWords(ws) ==
  IF ws = << >> THEN << >>
  ELSE IF Len(ws) = 1 THEN ws[1]
  ELSE ws[1] \o <<SP>> \o JoinWords(Tail(ws))

\* ------------------------------------------------------------------------
\* ParseCommandPrefixes
\* ------------------------------------------------------------------------
\* an iteration in which '+' sets ignore_error as '-' does
PrefixStepPlusIgnores(st) ==
  LET c == Get(st.s, 0)
  IN [s |-> TrimLeftSpace(Substr(st.s, 1, NPOS)),
      echo |-> IF c = "@" THEN FALSE ELSE st.echo,
      ignore_error |-> IF c \in {"-", "+"} THEN TRUE ELSE st.ignore_error]

\* One iteration of the while loop on a character that is a modifier.
PrefixStep(st) ==
  LET c == Get(st.s, 0)
  IN [s |-> TrimLeftSpace(Substr(st.s, 1, NPOS)),
      echo |-> IF c = "@" THEN FALSE ELSE st.echo,
      ignore_error |-> IF c = "-" THEN TRUE ELSE st.ignore_error]

PrefixBreaks(st) == Get(st.s, 0) \notin {"@", "-", "+"}

RECURSIVE PrefixLoop(_)
PrefixLoop(st) == IF PrefixBreaks(st) THEN st ELSE PrefixLoop(PrefixStep(st))

ParseCommandPrefixes(s, echo, ignore_error) ==
  PrefixLoop([s |-> TrimLeftSpace(s), echo |-> echo,
              ignore_error |-> ignore_error])

\* ------------------------------------------------------------------------
\* Commands and the per-template part of CommandEvaluator::Eval
\* ------------------------------------------------------------------------
Command(output, cmd, echo, ignore_error) ==
  [output |-> output, cmd |-> cmd, echo |-> echo,
   ignore_error |-> ignore_error]

\* a loop in which a line's modifiers stay in force for the lines after it
RECURSIVE SplitLoopFlagsLeak(_, _, _, _, _)
SplitLoopFlagsLeak(cmds, global_echo, global_ignore_error, output, acc) ==
  LET eol == FindEndOfLine(cmds, 0)
      index == IF eol = Len(cmds) THEN NPOS ELSE eol
      line == TrimLeftSpace(Substr(cmds, 0, index))
      rest == Substr(cmds, index + 1, NPOS)
      p == ParseCommandPrefixes(line, global_echo, global_ignore_error)
      acc2 == IF p.s # << >>
              THEN Append(acc, Command(output, p.s, p.echo, p.ignore_error))
              ELSE acc
  IN IF index = NPOS THEN acc2
     ELSE SplitLoopFlagsLeak(rest, p.echo, p.ignore_error, output, acc2)

\* a loop that stops at the first empty line
RECURSIVE SplitLoopStopsAtEmpty(_, _, _, _, _)
SplitLoopStopsAtEmpty(cmds, global_echo, global_ignore_error, output, acc) ==
  LET eol == FindEndOfLine(cmds, 0)
      index == IF eol = Len(cmds) THEN NPOS ELSE eol
      line == TrimLeftSpace(Substr(cmds, 0, index))
      rest == Substr(cmds, index + 1, NPOS)
      p == ParseCommandPrefixes(line, global_echo, global_ignore_error)
  IN IF p.s = << >> THEN acc
     ELSE IF index = NPOS
          THEN Append(acc, Command(output, p.s, p.echo, p.ignore_error))
          ELSE SplitLoopStopsAtEmpty(rest, global_echo, global_ignore_error, output,
                 Append(acc, Command(output, p.s, p.echo, p.ignore_error)))

\* The while (true) loop that splits one block into commands.
RECURSIVE SplitLoop(_, _, _, _, _)
SplitLoop(cmds, global_echo, global_ignore_error, output, acc) ==
  LET eol == FindEndOfLine(cmds, 0)
      index == IF eol = Len(cmds) THEN NPOS ELSE eol
      line == TrimLeftSpace(Substr(cmds, 0, index))
      rest == Substr(cmds, index + 1, NPOS)
      p == ParseCommandPrefixes(line, global_echo, global_ignore_error)
      acc2 == IF p.s # << >>
              THEN Append(acc, Command(output, p.s, p.echo, p.ignore_error))
              ELSE acc
  IN IF index = NPOS THEN acc2
     ELSE SplitLoop(rest, global_echo, global_ignore_error, output, acc2)

\* Body of the for loop over n.cmds, after the template was expanded.
EvalTemplate(cmds_buf, is_silent, output, result) ==
  LET g == ParseCommandPrefixes(cmds_buf, ~is_silent, FALSE)
  IN IF g.s = << >> THEN result
     ELSE SplitLoop(g.s, g.echo, g.ignore_error, output, result)

\* ------------------------------------------------------------------------
\* Dependency nodes and values
\* ------------------------------------------------------------------------
A == <<"a">>
B == <<"b">>
T == <<"t">>
UO == <<"u", "o">>
InputNames == {A, B}
Outputs == {T, UO}
Files == InputNames \cup Outputs

NullNode == [isNull |-> TRUE]      \* a null DepNode pointer
NullScope == "NULL"                \* a null Vars pointer

\* Only the node built by a pattern rule has a valid output_pattern.
PatternOf(output) == IF output = UO THEN <<"%", "o">> ELSE << >>

DepNode(output, actual_inputs, cmds) ==
  [output |-> output, actual_inputs |-> actual_inputs,
   output_pattern |-> PatternOf(output), rule_vars |-> "rule_vars",
   cmds |-> cmds]

Lit(text) == [kind |-> "lit", sym |-> "", text |-> text]
Var(sym) == [kind |-> "var", sym |-> sym, text |-> << >>]

SeqsUpTo(S, n) == UNION {[1..k -> S] : k \in 0..n}

\* ------------------------------------------------------------------------
\* External collaborators: timestamps and patterns
\* ------------------------------------------------------------------------
Missing == 0                       \* timestamp of a file that does not exist
Times == {Missing, 1, 2}

GetTimestamp(ts, name) == ts[name]

\* Pattern(pat).Stem(str) for a pattern with one '%'
PercentIndex(pat) == CHOOSE k \in 0..Len(pat) : k = Len(pat) \/ pat[k + 1] = "%"
Stem(pat, str) ==
  LET k == PercentIndex(pat)
      pre == Substr(pat, 0, k)
      suf == Substr(pat, k + 1, NPOS)
      matches == /\ Len(str) >= Len(pre) + Len(suf)
                 /\ Substr(str, 0, Len(pre)) = pre
                 /\ Substr(str, Len(str) - Len(suf), NPOS) = suf
  IN IF k = Len(pat) \/ ~matches THEN << >>
     ELSE Substr(str, k, Len(str) - Len(suf) - k)

\* ------------------------------------------------------------------------
\* Automatic variables.  ev_node is ev->current_dep_node, ce_cur is
\* ce_->current_dep_node().
\* ------------------------------------------------------------------------
CurrentDepNode(ev_node, ce_cur) ==
  IF ev_node # NullNode THEN ev_node ELSE ce_cur

AutoAtVar(ev_node, ce_cur) == CurrentDepNode(ev_node, ce_cur).output

AutoLessVar(ev_node, ce_cur) ==
  LET ai == CurrentDepNode(ev_node, ce_cur).actual_inputs
  IN IF ai # << >> THEN ai[1] ELSE << >>

\* the loop over actual_inputs with the unordered_set seen
RECURSIVE UniqueWords(_, _)
UniqueWords(ai, seen) ==
  IF ai = << >> THEN << >>
  ELSE IF ai[1] \notin seen
       THEN <<ai[1]>> \o UniqueWords(Tail(ai), seen \cup {ai[1]})
       ELSE UniqueWords(Tail(ai), seen)

\* a "^" that keeps the duplicates
AutoHatVarKeepsDuplicates(ev_node, ce_cur) ==
  JoinWords(CurrentDepNode(ev_node, ce_cur).actual_inputs)

AutoHatVar(ev_node, ce_cur) ==
  JoinWords(UniqueWords(CurrentDepNode(ev_node, ce_cur).actual_inputs, {}))

AutoPlusVar(ev_node, ce_cur) ==
  JoinWords(CurrentDepNode(ev_node, ce_cur).actual_inputs)

AutoStarVar(ev_node, ce_cur) ==
  LET n == CurrentDepNode(ev_node, ce_cur)
  IN IF n.output_pattern = << >> THEN << >>
     ELSE Stem(n.output_pattern, n.output)

RECURSIVE NewerWords(_, _, _, _)
NewerWords(ai, seen, ts, target_age) ==
  IF ai = << >> THEN << >>
  ELSE IF ai[1] \notin seen /\ GetTimestamp(ts, ai[1]) > target_age
       THEN <<ai[1]>> \o NewerWords(Tail(ai), seen \cup {ai[1]}, ts, target_age)
       ELSE NewerWords(Tail(ai), seen \cup {ai[1]}, ts, target_age)

AutoQuestionVar(ev_node, ce_cur, ts) ==
  LET target_age == GetTimestamp(ts, CurrentDepNode(ev_node, ce_cur).output)
  IN JoinWords(NewerWords(ce_cur.actual_inputs, {}, ts, target_age))

\* reports a diagnostic through ev->Error and appends nothing
AutoNotImplementedVar == << >>

\* The variables INSERT_AUTO_VAR registers, by symbol; question is the
\* class chosen for "?" when the evaluator was constructed.
AutoVarEval(sym, question, ev_node, ce_cur, ts) ==
  CASE sym = "@" -> AutoAtVar(ev_node, ce_cur)
    [] sym = "<" -> AutoLessVar(ev_node, ce_cur)
    [] sym = "^" -> AutoHatVar(ev_node, ce_cur)
    [] sym = "+" -> AutoPlusVar(ev_node, ce_cur)
    [] sym = "*" -> AutoStarVar(ev_node, ce_cur)
    [] sym = "?" -> IF question = "AutoQuestionVar"
                    THEN AutoQuestionVar(ev_node, ce_cur, ts)
                    ELSE AutoNotImplementedVar
    [] OTHER -> AutoNotImplementedVar

\* v->Eval(ev_) of one command template
ValueEval(v, question, ev_node, ce_cur, ts) ==
  IF v.kind = "lit" THEN v.text
  ELSE AutoVarEval(v.sym, question, ev_node, ce_cur, ts)

\* ------------------------------------------------------------------------
\* State
\* ------------------------------------------------------------------------
Inst == {1, 2}                     \* the CommandEvaluator instances

VARIABLES
  is_silent_mode,        \* g_flags.is_silent_mode
  auto_vars,             \* the global variables set by INSERT_AUTO_VAR:
                         \*   ce = the instance they point to (ce_),
                         \*   question = the class registered for "?"
  ts,                    \* modification time of every file
  pc,                    \* per instance: where its Eval call is
  current_dep_node_,     \* per instance: CommandEvaluator::current_dep_node_
  ev_scope,              \* per instance: ev_'s current scope
  ev_evaluating,         \* per instance: ev_'s "evaluating command" flag
  ev_current_dep_node,   \* per instance: ev_->current_dep_node
  ev_delayed,            \* per instance: ev_->delayed_output_commands()
  idx,                   \* per instance: templates of n.cmds done so far
  expansions,            \* per instance: cmds_buf of each template so far
  result,                \* per instance: the vector result
  nextId,                \* number of the next delayed-output string
  emitted,               \* per delayed string: in how many returned results
  pp                     \* a ParseCommandPrefixes call on its own

vars == <<is_silent_mode, auto_vars, ts, pc, current_dep_node_, ev_scope,
          ev_evaluating, ev_current_dep_node, ev_delayed, idx, expansions,
          result, nextId, emitted, pp>>

globals == <<is_silent_mode, auto_vars, ts>>

\* The n-th delayed-output string
Digits == <<"1", "2", "3", "4", "5", "6">>
DelayedStr(k) == <<"d", Digits[k]>>
DelayedIds == 1..(MaxDelayed + 1)

ppOff == [pc |-> "off"]

\* ------------------------------------------------------------------------
\* CommandEvaluator::Eval, one step per template
\* ------------------------------------------------------------------------
\* Lines 214-218: install the context.
Begin(i, n) ==
  /\ pc[i] \in {"idle", "done", "aborted"}
  /\ pc' = [pc EXCEPT ![i] = "running"]
  /\ ev_scope' = [ev_scope EXCEPT ![i] = n.rule_vars]
  /\ ev_evaluating' = [ev_evaluating EXCEPT ![i] = TRUE]
  /\ current_dep_node_' = [current_dep_node_ EXCEPT ![i] = n]
  /\ idx' = [idx EXCEPT ![i] = 0]
  /\ expansions' = [expansions EXCEPT ![i] = << >>]
  /\ result' = [result EXCEPT ![i] = << >>]
  /\ UNCHANGED <<globals, ev_current_dep_node, ev_delayed, nextId, emitted, pp>>

\* What ce_->current_dep_node() can yield: the node last passed to Eval on
\* the instance the automatic variables point to (nodes belong to the
\* dependency graph and outlive the call); before the first call the
\* member is uninitialized and may refer to any node.
CeNodeReads(anyNodes) ==
  IF current_dep_node_[auto_vars.ce] # NullNode
  THEN {current_dep_node_[auto_vars.ce]}
  ELSE anyNodes

\* Lines 219-250, one iteration: expand a template and split it into
\* commands.  ov is the override node the general evaluator has installed
\* while the template's variables are expanded, q the number of
\* delayed-output strings the expansion queues, anyNodes the nodes a
\* dangling current_dep_node_ may refer to.
Expand(i, ov, q, anyNodes) ==
  /\ pc[i] = "running"
  /\ idx[i] < Len(current_dep_node_[i].cmds)
  /\ q = 0 \/ nextId <= MaxDelayed
  /\ \E ce_cur \in CeNodeReads(anyNodes) :
       LET n == current_dep_node_[i]
           v == n.cmds[idx[i] + 1]
           cmds_buf == ValueEval(v, auto_vars.question, ov, ce_cur, ts)
       IN /\ expansions' = [expansions EXCEPT ![i] = Append(@, cmds_buf)]
          /\ result' = [result EXCEPT ![i] =
                          EvalTemplate(cmds_buf, is_silent_mode, n.output, @)]
  /\ idx' = [idx EXCEPT ![i] = @ + 1]
  /\ ev_current_dep_node' = [ev_current_dep_node EXCEPT ![i] = ov]
  /\ ev_delayed' = [ev_delayed EXCEPT ![i] =
                      IF q = 1 THEN Append(@, DelayedStr(nextId)) ELSE @]
  /\ nextId' = nextId + q
  /\ UNCHANGED <<globals, pc, current_dep_node_, ev_scope, ev_evaluating,
                 emitted, pp>>

\* Line 221: the general evaluator raises a fatal condition, which leaves
\* Eval at once; the statements after the call are not run.
Abort(i) ==
  /\ pc[i] = "running"
  /\ idx[i] < Len(current_dep_node_[i].cmds)
  /\ pc' = [pc EXCEPT ![i] = "aborted"]
  /\ result' = [result EXCEPT ![i] = << >>]
  /\ UNCHANGED <<globals, current_dep_node_, ev_scope, ev_evaluating,
                 ev_current_dep_node, ev_delayed, idx, expansions, nextId,
                 emitted, pp>>

\* Lines 253-262: the delayed-output commands are built, swapped with
\* result, and the former result is copied behind them.
RECURSIVE OutputCommands(_, _)
OutputCommands(delayed, output) ==
  IF delayed = << >> THEN << >>
  ELSE <<Command(output, delayed[1], FALSE, FALSE)>>
         \o OutputCommands(Tail(delayed), output)

\* a merge that keeps only the delayed-output commands
MergeDelayedDropsResult(res, delayed, output) ==
  IF delayed # << >> THEN OutputCommands(delayed, output) ELSE res

MergeDelayed(res, delayed, output) ==
  IF delayed # << >>
  THEN LET output_commands == OutputCommands(delayed, output)
           swapped == [result |-> output_commands, output_commands |-> res]
       IN swapped.result \o swapped.output_commands
  ELSE res

\* a merge that leaves the queue as it was
DelayedKept(delayed) == delayed

\* Lines 252 and 263: the queue after the merge
DelayedAfterMerge(delayed) ==
  IF delayed # << >> THEN << >> ELSE delayed

InResult(res, k) == \E j \in 1..Len(res) : res[j].cmd = DelayedStr(k)

\* Lines 252-269: merge the delayed output, restore the context, return.
Finish(i) ==
  /\ pc[i] = "running"
  /\ idx[i] = Len(current_dep_node_[i].cmds)
  /\ result' = [result EXCEPT ![i] =
                  MergeDelayed(@, ev_delayed[i], current_dep_node_[i].output)]
  /\ ev_delayed' = [ev_delayed EXCEPT ![i] = DelayedAfterMerge(@)]
  /\ ev_scope' = [ev_scope EXCEPT ![i] = NullScope]
  /\ ev_evaluating' = [ev_evaluating EXCEPT ![i] = FALSE]
  /\ pc' = [pc EXCEPT ![i] = "done"]
  /\ emitted' = [k \in DelayedIds |->
                   IF InResult(result'[i], k) THEN Min(emitted[k] + 1, 2)
                   ELSE emitted[k]]
  /\ UNCHANGED <<globals, current_dep_node_, ev_current_dep_node, idx,
                 expansions, nextId, pp>>

\* ------------------------------------------------------------------------
\* ParseCommandPrefixes on its own, one step per loop iteration
\* ------------------------------------------------------------------------
\* Line 172
PrefixTrim ==
  /\ pp.pc = "call"
  /\ pp' = [pp EXCEPT !.pc = "loop", !.st.s = TrimLeftSpace(@)]
  /\ UNCHANGED <<globals, pc, current_dep_node_, ev_scope, ev_evaluating,
                 ev_current_dep_node, ev_delayed, idx, expansions, result,
                 nextId, emitted>>

\* Lines 174-184, a modifier character
PrefixIterate ==
  /\ pp.pc = "loop"
  /\ ~PrefixBreaks(pp.st)
  /\ pp' = [pp EXCEPT !.st = PrefixStep(@)]
  /\ UNCHANGED <<globals, pc, current_dep_node_, ev_scope, ev_evaluating,
                 ev_current_dep_node, ev_delayed, idx, expansions, result,
                 nextId, emitted>>

\* Lines 181-182, any other character
PrefixReturn ==
  /\ pp.pc = "loop"
  /\ PrefixBreaks(pp.st)
  /\ pp' = [pp EXCEPT !.pc = "ret"]
  /\ UNCHANGED <<globals, pc, current_dep_node_, ev_scope, ev_evaluating,
                 ev_current_dep_node, ev_delayed, idx, expansions, result,
                 nextId, emitted>>

\* ------------------------------------------------------------------------
\* Inputs
\* ------------------------------------------------------------------------
RECURSIVE JoinLines(_)
JoinLines(ls) ==
  IF Len(ls) = 1 THEN ls[1] ELSE ls[1] \o <<LF>> \o JoinLines(Tail(ls))

\* Expanded blocks that exercise block and line modifiers, an empty line,
\* a block that is empty once stripped, an escaped line terminator and a
\* modifier after ordinary text.
EvalBlocks ==
  { <<"@", "x", LF, "-", SP, "x">>,
    <<"x", LF, SP, "@", "x", LF, LF, "x">>,
    <<SP, "-", SP, LF, "+", BS, LF, "x", "@">>,
    <<"@", LF>> }
EvalValues == {Lit(b) : b \in EvalBlocks}
EvalNodes ==
  {DepNode(o, <<A>>, c) : o \in Outputs, c \in SeqsUpTo(EvalValues, MaxTemplates)}

AutoSyms == {"@", "<", "^", "+", "*", "?", "%"}
AutoNodes ==
  {DepNode(nd[1], nd[2], <<Var(nd[3])>>) :
     nd \in Outputs \X SeqsUpTo(InputNames, MaxInputs) \X AutoSyms}
OverrideNodes ==
  {DepNode(o, ai, << >>) :
     o \in Outputs, ai \in SeqsUpTo(InputNames, MaxOverrideInputs)}
TsChoices == {f \in [Files -> Times] : f[UO] = 1}
DefaultTs == [f \in Files |-> 1]

ConcNodes ==
  {DepNode(o, <<A>>, c) : o \in Outputs, c \in {<<Var("@")>>, <<Var("@"), Lit(<<"x">>)>>}}

PrefixChars == {"@", "-", "+", SP, LF, "x"}
PrefixInputs ==
  {[s |-> in[1], echo |-> in[2], ignore_error |-> in[3]] :
     in \in SeqsUpTo(PrefixChars, MaxLen) \X BOOLEAN \X BOOLEAN}

\* ------------------------------------------------------------------------
\* Specifications
\* ------------------------------------------------------------------------
InitEval ==
  /\ pc = [i \in Inst |-> "idle"]
  /\ current_dep_node_ = [i \in Inst |-> NullNode]
  /\ ev_scope = [i \in Inst |-> NullScope]
  /\ ev_evaluating = [i \in Inst |-> FALSE]
  /\ ev_current_dep_node = [i \in Inst |-> NullNode]
  /\ ev_delayed = [i \in Inst |-> << >>]
  /\ idx = [i \in Inst |-> 0]
  /\ expansions = [i \in Inst |-> << >>]
  /\ result = [i \in Inst |-> << >>]
  /\ nextId = 1
  /\ emitted = [k \in DelayedIds |-> 0]

\* One evaluator, nodes with literal templates.
Init ==
  /\ InitEval
  /\ is_silent_mode \in BOOLEAN
  /\ auto_vars = [ce |-> 1, question |-> "AutoQuestionVar"]
  /\ ts = DefaultTs
  /\ pp = ppOff

Next ==
  \/ \E n \in EvalNodes : Begin(1, n)
  \/ \E q \in {0, 1} : Expand(1, NullNode, q, EvalNodes)
  \/ Abort(1)
  \/ Finish(1)

Spec == Init /\ [][Next]_vars

\* One evaluator, nodes whose template is one automatic variable.
InitAuto ==
  /\ InitEval
  /\ is_silent_mode = FALSE
  /\ \E generate_ninja \in BOOLEAN :
       auto_vars = [ce |-> 1,
                    question |-> IF ~generate_ninja THEN "AutoQuestionVar"
                                 ELSE "AutoNotImplementedVar"]
  /\ ts \in TsChoices
  /\ pp = ppOff

NextAuto ==
  \/ pc[1] = "idle" /\ \E n \in AutoNodes : Begin(1, n)
  \/ \E ov \in {NullNode} \cup OverrideNodes : Expand(1, ov, 0, AutoNodes)
  \/ Finish(1)

SpecAuto == InitAuto /\ [][NextAuto]_vars

\* Two evaluators, each driven by its own worker.
InitConc ==
  /\ InitEval
  /\ is_silent_mode = FALSE
  /\ \E last \in Inst : auto_vars = [ce |-> last, question |-> "AutoQuestionVar"]
  /\ ts = DefaultTs
  /\ pp = ppOff

NextConc ==
  \E i \in Inst :
    \/ \E n \in ConcNodes : Begin(i, n)
    \/ Expand(i, NullNode, 0, ConcNodes)
    \/ Finish(i)

SpecConc == InitConc /\ [][NextConc]_vars

\* ParseCommandPrefixes alone; the call runs to completion.
InitPrefix ==
  /\ InitEval
  /\ is_silent_mode = FALSE
  /\ auto_vars = [ce |-> 1, question |-> "AutoQuestionVar"]
  /\ ts = DefaultTs
  /\ \E in \in PrefixInputs : pp = [pc |-> "call", in |-> in, st |-> in]

NextPrefix == PrefixTrim \/ PrefixIterate \/ PrefixReturn

SpecPrefix == InitPrefix /\ [][NextPrefix]_vars /\ WF_vars(NextPrefix)

\* ------------------------------------------------------------------------
\* Vocabulary of the properties, defined on positions of the whole string
\* ------------------------------------------------------------------------
ModifierChars == {"@", "-", "+"}
RunChars == ModifierChars \cup {SP, LF}

HasChar(s, c) == \E j \in 1..Len(s) : s[j] = c

\* length of the longest leading run of whitespace and modifier characters
RunLen(s) ==
  CHOOSE k \in 0..Len(s) :
    /\ \A j \in 1..k : s[j] \in RunChars
    /\ k = Len(s) \/ s[k + 1] \notin RunChars
LeadRun(s) == SubSeq(s, 1, RunLen(s))
Stripped(s) == SubSeq(s, RunLen(s) + 1, Len(s))

\* the k-th smallest element of a set of positions
Nth(P, k) == CHOOSE p \in P : Cardinality({q \in P : q < p}) = k - 1

\* the pieces of s between the positions in P
Segments(s, P) ==
  LET n == Cardinality(P)
      cut(k) == IF k = 0 THEN 0 ELSE IF k = n + 1 THEN Len(s) + 1 ELSE Nth(P, k)
  IN [k \in 1..(n + 1) |-> SubSeq(s, cut(k - 1) + 1, cut(k) - 1)]

\* a line terminator is escaped when an odd number of backslashes precede it
BackslashesBefore(s, p) ==
  Cardinality({k \in 1..(p - 1) : \A j \in 1..k : s[p - j] = BS})
Terminators(s) ==
  {p \in 1..Len(s) : s[p] = LF /\ BackslashesBefore(s, p) % 2 = 0}
LinesOf(s) == Segments(s, Terminators(s))

WordsOf(s) ==
  IF s = << >> THEN << >> ELSE Segments(s, {p \in 1..Len(s) : s[p] = SP})

\* The commands one expanded block stands for: one per line that is not
\* empty once stripped, with the block's flags changed by the line's own
\* leading modifiers.
BlockCommands(block, is_silent, output) ==
  LET lines == LinesOf(block)
      all == [k \in 1..Len(lines) |->
                Command(output, Stripped(lines[k]),
                        /\ ~is_silent
                        /\ ~HasChar(LeadRun(block), "@")
                        /\ ~HasChar(LeadRun(lines[k]), "@"),
                        \/ HasChar(LeadRun(block), "-")
                        \/ HasChar(LeadRun(lines[k]), "-"))]
  IN SelectSeq(all, LAMBDA c : c.cmd # << >>)

RECURSIVE BlocksCommands(_, _, _)
BlocksCommands(blocks, is_silent, output) ==
  IF blocks = << >> THEN << >>
  ELSE BlockCommands(blocks[1], is_silent, output)
         \o BlocksCommands(Tail(blocks), is_silent, output)

IsDelayed(c) == Get(c.cmd, 0) = "d"
TemplatePart(res) == SelectSeq(res, LAMBDA c : ~IsDelayed(c))
DelayedPart(res) == SelectSeq(res, LAMBDA c : IsDelayed(c))
TextAndOutput(res) ==
  [k \in 1..Len(res) |-> <<res[k].cmd, res[k].output>>]
Flags(res) ==
  [k \in 1..Len(res) |-> <<res[k].echo, res[k].ignore_error>>]

\* ------------------------------------------------------------------------
\* Properties of CommandEvaluator::Eval (specification Spec)
\* ------------------------------------------------------------------------
\* C1: when Eval returns, its result is one command per queued
\* delayed-output string, in queue order, each for the node's output with
\* echo and ignore_error false, followed by the commands the templates
\* produced, unchanged and in their order.
C1_DelayedFirstThenTemplates ==
  [][pc[1] = "running" /\ pc'[1] = "done" =>
       LET q == ev_delayed[1]
           out == current_dep_node_[1].output
       IN result'[1] =
            [k \in 1..Len(q) |-> Command(out, q[k], FALSE, FALSE)] \o result[1]]_vars

C1_Witness ==
  /\ pc[1] = "done"
  /\ result[1] = << Command(UO, DelayedStr(1), FALSE, FALSE),
                    Command(UO, DelayedStr(2), FALSE, FALSE),
                    Command(UO, <<"x">>, FALSE, FALSE),
                    Command(UO, <<"x">>, FALSE, TRUE) >>

\* C2: on every exit of Eval, by return or by a fatal condition raised
\* while a template is expanded, the scope is cleared and the "evaluating
\* command" flag is false.
C2_ContextRestoredOnEveryExit ==
  pc[1] \in {"done", "aborted"} =>
    ev_scope[1] = NullScope /\ ev_evaluating[1] = FALSE

\* C8: the flags of the template-produced commands are the block's flags
\* (echo = not silent, ignore_error = false, changed by the block's leading
\* modifiers) changed only by the modifiers that lead the command's own
\* line.
C8_FlagsPerLine ==
  pc[1] \in {"running", "done"} =>
    LET expected == BlocksCommands(expansions[1], is_silent_mode,
                                   current_dep_node_[1].output)
        got == TemplatePart(result[1])
    IN Len(got) = Len(expected) /\ Flags(got) = Flags(expected)

C8_Witness ==
  /\ pc[1] = "done"
  /\ expansions[1] = << <<"x", LF, SP, "@", "x", LF, LF, "x">>,
                        <<"@", "x", LF, "-", SP, "x">> >>
  /\ Flags(result[1]) = << <<TRUE, FALSE>>, <<FALSE, FALSE>>, <<TRUE, FALSE>>,
                           <<FALSE, FALSE>>, <<FALSE, TRUE>> >>

\* C9: the template-produced commands are, in template order and then line
\* order, the lines of the expanded templates that are not empty once
\* stripped; none has an empty text and each carries the node's output.
C9_OneCommandPerNonEmptyLine ==
  pc[1] \in {"running", "done"} =>
    LET expected == BlocksCommands(expansions[1], is_silent_mode,
                                   current_dep_node_[1].output)
        got == TemplatePart(result[1])
    IN /\ TextAndOutput(got) = TextAndOutput(expected)
       /\ \A k \in 1..Len(result[1]) :
            /\ result[1][k].cmd # << >>
            /\ result[1][k].output = current_dep_node_[1].output

C9_Witness ==
  /\ pc[1] = "done"
  /\ expansions[1] = << <<"@", LF>>, <<"x", LF, SP, "@", "x", LF, LF, "x">> >>
  /\ TextAndOutput(result[1]) =
       << <<<<"x">>, UO>>, <<<<"x">>, UO>>, <<<<"x">>, UO>> >>

\* C10: when Eval has returned the delayed-output queue is empty, and every
\* string queued so far is either still queued or was part of exactly one
\* returned result.
C10_QueueEmptiedOnReturn ==
  /\ pc[1] = "done" => ev_delayed[1] = << >>
  /\ \A k \in 1..(nextId - 1) :
       LET queued == \E j \in 1..Len(ev_delayed[1]) : ev_delayed[1][j] = DelayedStr(k)
       IN IF queued THEN emitted[k] = 0 ELSE emitted[k] = 1

C10_Witness ==
  /\ pc[1] = "done"
  /\ emitted[1] = 1 /\ emitted[2] = 1
  /\ ~InResult(result[1], 1) /\ InResult(result[1], 2)

\* ------------------------------------------------------------------------
\* Properties of ParseCommandPrefixes (specification SpecPrefix)
\* ------------------------------------------------------------------------
\* C7: ParseCommandPrefixes returns, and returns the input without its
\* longest leading run of whitespace and '@', '-', '+'; echo is false if
\* the run holds '@' and else as given, ignore_error is true if the run
\* holds '-' and else as given; what follows the run is left alone.
C7_PrefixParser ==
  /\ [](pp.pc = "ret" =>
          /\ pp.st.s = Stripped(pp.in.s)
          /\ pp.st.echo = (pp.in.echo /\ ~HasChar(LeadRun(pp.in.s), "@"))
          /\ pp.st.ignore_error =
               (pp.in.ignore_error \/ HasChar(LeadRun(pp.in.s), "-")))
  /\ <>(pp.pc = "ret")

C7_Witness ==
  /\ pp.pc = "ret"
  /\ pp.in = [s |-> <<"+", SP, "x", "-">>, echo |-> TRUE, ignore_error |-> FALSE]
  /\ pp.st = [s |-> <<"x", "-">>, echo |-> TRUE, ignore_error |-> FALSE]

\* ------------------------------------------------------------------------
\* Properties of the automatic variables (specification SpecAuto)
\* ------------------------------------------------------------------------
\* the node an automatic variable is to read: the override if one is
\* active, else the node of the enclosing Eval
ResolvedNode ==
  IF ev_current_dep_node[1] # NullNode THEN ev_current_dep_node[1]
  ELSE current_dep_node_[1]

ExpandedSym == current_dep_node_[1].cmds[1].sym
Expanded == pc[1] # "idle" /\ idx[1] = 1

FirstOccurrences(ai) == {i \in 1..Len(ai) : \A j \in 1..(i - 1) : ai[j] # ai[i]}
Pick(ai, I) == [k \in 1..Cardinality(I) |-> ai[Nth(I, k)]]
NewerThan(ai, target) ==
  {i \in FirstOccurrences(ai) : ts[ai[i]] > ts[target]}

\* the value of each automatic variable on one node
ValueOn(sym, n) ==
  CASE sym = "@" -> n.output
    [] sym = "<" -> IF n.actual_inputs = << >> THEN << >> ELSE n.actual_inputs[1]
    [] sym = "^" -> JoinWords(Pick(n.actual_inputs, FirstOccurrences(n.actual_inputs)))
    [] sym = "+" -> JoinWords(n.actual_inputs)
    [] sym = "*" -> IF n.output_pattern = << >> THEN << >>
                    ELSE Stem(n.output_pattern, n.output)
    [] sym = "?" -> JoinWords(Pick(n.actual_inputs,
                                   NewerThan(n.actual_inputs, n.output)))

\* C3: each of @ < ^ + * ? computes its whole value from the override node
\* when one is active and else from the node of the enclosing Eval.
C3_ValueFromOneNode ==
  ( /\ Expanded
    /\ ExpandedSym \in {"@", "<", "^", "+", "*", "?"}
    /\ ExpandedSym = "?" => auto_vars.question = "AutoQuestionVar" )
  => expansions[1][1] = ValueOn(ExpandedSym, ResolvedNode)

\* C5: "+" is the prerequisites in their order, duplicates kept; "^" is the
\* same sequence without the later occurrences of each name.
C5_PlusAndHat ==
  Expanded =>
    LET ai == ResolvedNode.actual_inputs
        words == WordsOf(expansions[1][1])
    IN /\ ExpandedSym = "+" => words = ai
       /\ ExpandedSym = "^" =>
            /\ words = Pick(ai, FirstOccurrences(ai))
            /\ \A j, k \in 1..Len(words) : words[j] = words[k] => j = k
            /\ {words[k] : k \in 1..Len(words)} = {ai[k] : k \in 1..Len(ai)}

C5_Witness ==
  /\ Expanded
  /\ ExpandedSym = "^"
  /\ ResolvedNode.actual_inputs = <<A, B, A>>
  /\ expansions[1][1] = <<"a", SP, "b">>

\* C6: outside the restricted mode, "?" is the words of "^" whose
\* modification time is strictly greater than the target's.
C6_QuestionNewerOnly ==
  (Expanded /\ ExpandedSym = "?" /\ auto_vars.question = "AutoQuestionVar") =>
    LET n == ResolvedNode
        hat == Pick(n.actual_inputs, FirstOccurrences(n.actual_inputs))
    IN WordsOf(expansions[1][1]) =
         SelectSeq(hat, LAMBDA w : ts[w] > ts[n.output])

\* ------------------------------------------------------------------------
\* Properties of concurrent evaluators (specification SpecConc)
\* ------------------------------------------------------------------------
\* the commands of node n when its automatic variables read n itself
AloneResult(n) ==
  BlocksCommands([k \in 1..Len(n.cmds) |->
                    ValueEval(n.cmds[k], auto_vars.question, NullNode, n, ts)],
                 is_silent_mode, n.output)

\* C4: with one evaluator per worker, each Eval returns what it would
\* return if run alone, whatever the interleaving.
C4_IndependentInstances ==
  \A i \in Inst : pc[i] = "done" => result[i] = AloneResult(current_dep_node_[i])

====
